---- MODULE Spec2Model ----
(***************************************************************************)
(* NovelSearch (src/NovelSearch/cli.py): the collector                     *)
(* (scrape_award_novels), the merger (scrape) and the annotator (process)  *)
(* over the JSON file award_novels.json.                                   *)
(*                                                                         *)
(* Texts that the code inspects character by character (table cells, the   *)
(* annotator's input) are sequences of one-character strings.  An award    *)
(* field is the sequence of the labels that "|".join put into it, so       *)
(* "Hugo|Nebula" is <<"Hugo", "Nebula">>.                                   *)
(***************************************************************************)
EXTENDS Integers, Sequences, FiniteSets, TLC

VARIABLES
    \* ---- the persisted collection and the commands run on it
    file,          \* content of award_novels.json (<< >>: absent or empty)
    pc,            \* "idle": no command running; "prompt": process waits in input()
    all_novels,    \* process: the list loaded at line 234 (kept after the run ends)
    idx,           \* process: idx_to_process, 1-based (0: None)
    last,          \* the last step: init, scrape, empty, prompted, invalid, done, quit
    after,         \* the --after option of the last scrape (0: last command was no scrape)
    collected,     \* keys of combined_new (line 185) of the last scrape
    pending0,      \* records without pov when the process run started
    accepted,      \* classifications accepted in the process run
    \* ---- one call of scrape_award_novels
    cstate,        \* idle, running, done (returned), crashed (exception)
    header,        \* header cell texts of the table being read
    year_col_index,\* 0-based index of the Year column (-1: None)
    scanning,      \* TRUE while the body rows of the current table are iterated
    current_year,  \* line 102
    award_novels,  \* line 73
    row,           \* the body row the loop of line 104 took last
    tcount,        \* tables read so far
    rcount,        \* body rows read so far
    in_retro       \* history: the last Year cell of the table with a year was a "retro" one

mainVars == <<file, pc, all_novels, idx, last, after, collected, pending0, accepted>>
collVars == <<cstate, header, year_col_index, scanning, current_year, award_novels,
              row, tcount, rcount, in_retro>>
vars == <<mainVars, collVars>>

------------------------------------------------------------------------------
(* Bounds *)

\* longest list one page contributes to a scrape run
MaxPageLen == 2
\* most labels joined into one award field
MaxAwardLabels == 3
\* tables of a page
MaxTables == 2
\* body rows of a page
MaxRows == 3

\* default of the --after option
DefaultAfter == 1990

------------------------------------------------------------------------------
(* Texts *)

sYear == <<"Y","e","a","r">>
sYearAwarded == <<"Y","e","a","r"," ","a","w","a","r","d","e","d">>
sAuthor == <<"A","u","t","h","o","r">>
sNovel == <<"N","o","v","e","l">>
s1990 == <<"1","9","9","0">>
s1991tie == <<"1","9","9","1"," ","(","t","i","e",")">>
s1990note == <<"1","9","9","0","[","a","]">>
s1941retro == <<"1","9","4","1"," ","R","e","t","r","o">>
sZero == <<"0">>
sEmpty == << >>

Digits == {"0","1","2","3","4","5","6","7","8","9"}

DigitVal(c) ==
    CASE c = "0" -> 0 [] c = "1" -> 1 [] c = "2" -> 2 [] c = "3" -> 3 [] c = "4" -> 4
      [] c = "5" -> 5 [] c = "6" -> 6 [] c = "7" -> 7 [] c = "8" -> 8 [] c = "9" -> 9

\* str.lower() on the letters the texts above use
LowerChar(c) ==
    CASE c = "Y" -> "y" [] c = "A" -> "a" [] c = "N" -> "n" [] c = "R" -> "r"
      [] OTHER -> c

Lower(s) == [i \in 1..Len(s) |-> LowerChar(s[i])]

\* sub in s
Contains(s, sub) ==
    \E i \in 1..(Len(s) - Len(sub) + 1) : SubSeq(s, i, i + Len(sub) - 1) = sub

RECURSIVE SplitFrom(_, _, _, _)
SplitFrom(s, i, cur, acc) ==
    IF i > Len(s) THEN (IF cur = << >> THEN acc ELSE Append(acc, cur))
    ELSE IF s[i] = " "
         THEN SplitFrom(s, i + 1, << >>, IF cur = << >> THEN acc ELSE Append(acc, cur))
         ELSE SplitFrom(s, i + 1, Append(cur, s[i]), acc)

\* str.split(): the whitespace-separated words of s
Split(s) == SplitFrom(s, 1, << >>, << >>)

RECURSIVE DecVal(_)
DecVal(s) == IF s = << >> THEN 0 ELSE 10 * DecVal(SubSeq(s, 1, Len(s) - 1)) + DigitVal(s[Len(s)])

\* parse_int: int(s), and 0 when int raises ValueError
parse_int(s) ==
    IF s # << >> /\ \A i \in 1..Len(s) : s[i] \in Digits THEN DecVal(s) ELSE 0

------------------------------------------------------------------------------
(* The collector: scrape_award_novels, one table and one body row at a time *)

Headers == { <<sYear, sAuthor, sNovel>>,
             <<sAuthor, sYear>>,
             <<sYear, sYearAwarded, sNovel>>,
             <<sAuthor, sNovel>> }

YearCells == { s1990, s1991tie, s1990note, s1941retro, sZero, sEmpty, sAuthor }

RowCells == { << >> } \cup { <<y>> : y \in YearCells } \cup { <<sAuthor, s1991tie>> }

\* texts of the <i> tags of a row
RowTitles == { << >>, <<"A">>, <<"", "B">> }

Rows == [cells : RowCells, titles : RowTitles]

NoRow == [cells |-> << >>, titles |-> << >>]

header_texts(h) == [i \in 1..Len(h) |-> Lower(h[i])]

InTexts(t, texts) == \E i \in 1..Len(texts) : texts[i] = t

\* lines 87-88
is_retro_table(h) ==
    InTexts(Lower(sYear), header_texts(h)) /\ InTexts(Lower(sYearAwarded), header_texts(h))

IsYearCol(col_title) ==
    Contains(col_title, <<"y","e","a","r">>) /\ ~Contains(col_title, <<"a","w","a","r","d","e","d">>)

\* lines 92-96: 0-based index of the first Year column, -1 for None
find_year_col(h) ==
    LET hits == { i \in 1..Len(h) : IsYearCol(Lower(h[i])) }
    IN IF hits = {} THEN -1
       ELSE (CHOOSE i \in hits : \A j \in hits : i <= j) - 1

NewNovel(title, award_name, year) ==
    [title |-> title, award |-> <<award_name>>, year |-> year, pov |-> "null", read |-> FALSE]

RECURSIVE RowNovels(_, _, _)
\* lines 121-131
RowNovels(titles, award_name, year) ==
    IF titles = << >> THEN << >>
    ELSE (IF titles[1] # "" THEN <<NewNovel(titles[1], award_name, year)>> ELSE << >>)
         \o RowNovels(Tail(titles), award_name, year)

\* line 107
has_year_cell(r) == Len(r.cells) > year_col_index

year_cell(r) == r.cells[year_col_index + 1]

\* line 110
is_retro_cell(text) == Contains(Lower(text), <<"r","e","t","r","o">>)

\* the spec's reading of a Year cell: the positive integer the text begins with, else 0
RECURSIVE LeadingDigits(_)
LeadingDigits(s) ==
    IF s # << >> /\ s[1] \in Digits THEN <<s[1]>> \o LeadingDigits(Tail(s)) ELSE << >>

LeadingInt(text) == DecVal(LeadingDigits(text))

OwnYear(r) == IF has_year_cell(r) THEN LeadingInt(year_cell(r)) ELSE 0

\* lines 69-73
CollectStart ==
    /\ cstate = "idle"
    /\ cstate' = "running"
    /\ UNCHANGED <<header, year_col_index, scanning, current_year, award_novels,
                   row, tcount, rcount, in_retro>>

\* lines 76-102: the next table of the page, with header cells h
BeginTable ==
    /\ cstate = "running"
    /\ tcount < MaxTables
    /\ \E h \in Headers :
         /\ header' = h
         /\ IF is_retro_table(h)
            THEN /\ scanning' = FALSE
                 /\ UNCHANGED <<year_col_index, current_year>>
            ELSE /\ year_col_index' = find_year_col(h)
                 /\ scanning' = (find_year_col(h) # -1)
                 /\ current_year' = IF find_year_col(h) # -1 THEN 0 ELSE current_year
    /\ tcount' = tcount + 1
    /\ row' = NoRow
    /\ in_retro' = FALSE
    /\ UNCHANGED <<cstate, award_novels, rcount>>

\* lines 104-131: the next body row of the table
TableRow ==
    /\ cstate = "running"
    /\ scanning
    /\ rcount < MaxRows
    /\ \E r \in Rows :
         /\ row' = r
         /\ rcount' = rcount + 1
         /\ in_retro' = IF has_year_cell(r) /\ is_retro_cell(year_cell(r)) THEN TRUE
                        ELSE IF OwnYear(r) > 0 THEN FALSE ELSE in_retro
         /\ IF has_year_cell(r) /\ is_retro_cell(year_cell(r))
            THEN \* line 111
                 UNCHANGED <<cstate, current_year, award_novels>>
            ELSE IF has_year_cell(r) /\ Split(year_cell(r)) = << >>
            THEN \* line 112: [][0] of an empty list raises IndexError
                 /\ cstate' = "crashed"
                 /\ UNCHANGED <<current_year, award_novels>>
            ELSE LET new_year == IF has_year_cell(r)
                                 THEN parse_int(Split(year_cell(r))[1]) ELSE 0
                     cy == IF new_year > 0 THEN new_year ELSE current_year
                 IN /\ current_year' = cy
                    /\ award_novels' = IF cy = 0 THEN award_novels
                                       ELSE award_novels \o RowNovels(r.titles, "Hugo", cy)
                    /\ UNCHANGED cstate
    /\ UNCHANGED <<header, year_col_index, scanning, tcount>>

\* line 133
CollectReturn ==
    /\ cstate = "running"
    /\ cstate' = "done"
    /\ UNCHANGED <<header, year_col_index, scanning, current_year, award_novels,
                   row, tcount, rcount, in_retro>>

------------------------------------------------------------------------------
(* The persisted collection *)

\* the novels the two pages can list, as (title, year)
Novels == { <<"A", DefaultAfter>>, <<"B", DefaultAfter + 1>> }

\* values of the --after option
Afters == { DefaultAfter, DefaultAfter + 1 }

Key(n) == <<n.title, n.year>>

Keys(novels) == { Key(novels[i]) : i \in 1..Len(novels) }

\* load_novels_from_json / save_novels_to_json: the list read back is the list written
load_novels_from_json == file

save_novels_to_json(novels) == novels

\* a process run that never writes the file
save_after_entry_skipped(novels) == file

\* line 288
save_after_entry(novels) == save_novels_to_json(novels)

\* order of Python's str comparison on the titles and labels used
TitleRank(t) == IF t = "A" THEN 1 ELSE 2

LabelRank(l) == IF l = "Hugo" THEN 1 ELSE 2

RECURSIVE AwardLess(_, _)
\* a < b for the strings "|".join(a) and "|".join(b)
AwardLess(a, b) ==
    IF a = << >> THEN b # << >>
    ELSE IF b = << >> THEN FALSE
    ELSE IF a[1] = b[1] THEN AwardLess(Tail(a), Tail(b))
    ELSE LabelRank(a[1]) < LabelRank(b[1])

\* lines 210-211: "|".join(sorted([x, y]))
join_sorted(x, y) == IF AwardLess(y, x) THEN y \o x ELSE x \o y

\* a list of collected entries, from the (title, year) pairs a page yields
RECURSIVE PageData(_, _)
PageData(pairs, award_name) ==
    IF pairs = << >> THEN << >>
    ELSE <<NewNovel(pairs[1][1], award_name, pairs[1][2])>> \o PageData(Tail(pairs), award_name)

PageLists == UNION { [1..n -> Novels] : n \in 0..MaxPageLen }

\* lines 185 and 191
filter_after(novels, a) == SelectSeq(novels, LAMBDA n : n.year >= a)

IndexOfKey(m, k) == CHOOSE i \in 1..Len(m) : Key(m[i]) = k

\* dict assignment existing_map[key] = item, the dict kept in insertion order
MapPut(m, item) ==
    IF Key(item) \in Keys(m) THEN [m EXCEPT ![IndexOfKey(m, Key(item))] = item]
    ELSE Append(m, item)

RECURSIVE BuildMap(_, _)
BuildMap(m, items) ==
    IF items = << >> THEN m ELSE BuildMap(MapPut(m, items[1]), Tail(items))

\* a merge that forgets the persisted list
existing_map_empty(existing_data) == << >>

\* lines 194-197
existing_map(existing_data) == BuildMap(<< >>, existing_data)

\* a merge that copies no pov
keep_pov_dropped(existing, item) == item

\* lines 206-207
keep_pov(existing, item) ==
    IF existing.pov # "null" THEN [item EXCEPT !.pov = existing.pov] ELSE item

\* lines 209-211
combine_awards(existing, item) ==
    IF item.award # existing.award
    THEN [item EXCEPT !.award = join_sorted(item.award, existing.award)]
    ELSE item

\* a merge loop that never looks the key up
merge_item_append(m, item) == Append(m, item)

\* lines 201-212: one iteration of the merge loop
merge_item(m, item) ==
    IF Key(item) \notin Keys(m) THEN MapPut(m, item)
    ELSE LET existing == m[IndexOfKey(m, Key(item))]
         IN MapPut(m, combine_awards(existing, keep_pov(existing, item)))

RECURSIVE MergeAll(_, _)
\* lines 200-212
MergeAll(m, items) ==
    IF items = << >> THEN m ELSE MergeAll(merge_item(m, items[1]), Tail(items))

\* line 218: the sort key (year, title)
YearTitleLess(x, y) ==
    \/ x.year < y.year
    \/ x.year = y.year /\ TitleRank(x.title) < TitleRank(y.title)

RECURSIVE InsertYearTitle(_, _)
InsertYearTitle(s, x) ==
    IF s = << >> THEN <<x>>
    ELSE IF YearTitleLess(x, s[1]) THEN <<x>> \o s
    ELSE <<s[1]>> \o InsertYearTitle(Tail(s), x)

RECURSIVE SortYearTitle(_)
\* line 218: list.sort is stable
SortYearTitle(s) ==
    IF s = << >> THEN << >>
    ELSE InsertYearTitle(SortYearTitle(SubSeq(s, 1, Len(s) - 1)), s[Len(s)])

RECURSIVE InsertYearDesc(_, _)
InsertYearDesc(s, x) ==
    IF s = << >> THEN <<x>>
    ELSE IF s[1].year < x.year THEN <<x>> \o s
    ELSE <<s[1]>> \o InsertYearDesc(Tail(s), x)

RECURSIVE SortYearDesc(_)
SortYearDesc(s) ==
    IF s = << >> THEN << >>
    ELSE InsertYearDesc(SortYearDesc(SubSeq(s, 1, Len(s) - 1)), s[Len(s)])

\* a process run that keeps the order of the file
sort_year_desc_skipped(s) == s

\* line 240: list.sort(key=year, reverse=True), stable
sort_year_desc(s) == SortYearDesc(s)

\* lines 182-218: the list scrape saves
merged_data(a, hugo_data, nebula_data) ==
    LET combined_new == filter_after(hugo_data \o nebula_data, a)
        existing_data == filter_after(load_novels_from_json, a)
    IN SortYearTitle(MergeAll(existing_map(existing_data), combined_new))

\* lines 168-222: the scrape command
Scrape ==
    /\ pc = "idle"
    /\ \E a \in Afters, h \in PageLists, n \in PageLists :
         LET hugo_data == PageData(h, "Hugo")
             nebula_data == PageData(n, "Nebula")
             merged == merged_data(a, hugo_data, nebula_data)
         IN /\ file' = save_novels_to_json(merged)
            /\ \A i \in 1..Len(file') : Len(file'[i].award) <= MaxAwardLabels
            /\ after' = a
            /\ collected' = Keys(filter_after(hugo_data \o nebula_data, a))
    /\ last' = "scrape"
    /\ all_novels' = << >>
    /\ idx' = 0
    /\ pending0' = 0
    /\ accepted' = 0
    /\ UNCHANGED pc

\* a search that stops one entry short of the end of the list
find_next_short(novels) ==
    LET open == { i \in 1..(Len(novels) - 1) : novels[i].pov = "null" }
    IN IF open = {} THEN 0 ELSE CHOOSE i \in open : \A j \in open : i <= j

\* lines 244-248: 1-based index of the first novel without pov, 0 for None
find_next(novels) ==
    LET open == { i \in 1..Len(novels) : novels[i].pov = "null" }
    IN IF open = {} THEN 0 ELSE CHOOSE i \in open : \A j \in open : i <= j

Pending(novels) == Cardinality({ i \in 1..Len(novels) : novels[i].pov = "null" })

\* lines 234-255: the process command up to its first prompt
ProcessStart ==
    /\ pc = "idle"
    /\ after' = 0
    /\ collected' = {}
    /\ accepted' = 0
    /\ UNCHANGED file
    /\ IF load_novels_from_json = << >>
       THEN /\ last' = "empty"
            /\ all_novels' = << >>
            /\ idx' = 0
            /\ pending0' = 0
            /\ UNCHANGED pc
       ELSE LET sorted == sort_year_desc(load_novels_from_json)
            IN /\ all_novels' = sorted
               /\ idx' = find_next(sorted)
               /\ pending0' = Pending(sorted)
               /\ IF find_next(sorted) = 0
                  THEN last' = "done" /\ UNCHANGED pc
                  ELSE last' = "prompted" /\ pc' = "prompt"

\* what the user types, after strip().lower()
sQuit == <<"q","u","i","t">>
sExit == <<"e","x","i","t">>
Inputs == { <<"1">>, <<"r","2">>, <<"3">>, <<"4">>, <<"r">>, << >>, <<"1","2">>,
            sQuit, sExit }

\* line 268
is_read(user_input) == \E i \in 1..Len(user_input) : user_input[i] = "r"

\* line 270
pov_input(user_input) == SelectSeq(user_input, LAMBDA c : c # "r")

\* lines 272-283: the pov a valid input assigns, "null" for an invalid one
pov_of(user_input) ==
    CASE pov_input(user_input) = <<"1">> -> "first"
      [] pov_input(user_input) = <<"2">> -> "second"
      [] pov_input(user_input) = <<"3">> -> "third"
      [] OTHER -> "null"

\* lines 263-265
Quit ==
    /\ pc = "prompt"
    /\ \E user_input \in Inputs : user_input \in {sQuit, sExit}
    /\ pc' = "idle"
    /\ last' = "quit"
    /\ UNCHANGED <<file, all_novels, idx, after, collected, pending0, accepted>>

\* lines 284-285: the inner loop prompts again
InvalidInput ==
    /\ pc = "prompt"
    /\ \E user_input \in Inputs :
         /\ user_input \notin {sQuit, sExit}
         /\ pov_of(user_input) = "null"
    /\ last' = "invalid"
    /\ UNCHANGED <<file, pc, all_novels, idx, after, collected, pending0, accepted>>

\* lines 272-290 and 244-255: a classification is accepted and saved, then the next
\* novel is looked for
Classify ==
    /\ pc = "prompt"
    /\ \E user_input \in Inputs :
         /\ user_input \notin {sQuit, sExit}
         /\ pov_of(user_input) # "null"
         /\ all_novels' = [all_novels EXCEPT ![idx].pov = pov_of(user_input),
                                             ![idx].read = is_read(user_input)]
    /\ file' = save_after_entry(all_novels')
    /\ accepted' = accepted + 1
    /\ idx' = find_next(all_novels')
    /\ IF find_next(all_novels') = 0
       THEN last' = "done" /\ pc' = "idle"
       ELSE last' = "prompted" /\ UNCHANGED pc
    /\ UNCHANGED <<after, collected, pending0>>

------------------------------------------------------------------------------
(* Specifications *)

Init ==
    /\ file = << >>
    /\ pc = "idle"
    /\ all_novels = << >>
    /\ idx = 0
    /\ last = "init"
    /\ after = 0
    /\ collected = {}
    /\ pending0 = 0
    /\ accepted = 0
    /\ cstate = "idle"
    /\ header = << >>
    /\ year_col_index = -1
    /\ scanning = FALSE
    /\ current_year = 0
    /\ award_novels = << >>
    /\ row = NoRow
    /\ tcount = 0
    /\ rcount = 0
    /\ in_retro = FALSE

Next ==
    \/ (Scrape /\ UNCHANGED collVars)
    \/ (ProcessStart /\ UNCHANGED collVars)
    \/ (Quit /\ UNCHANGED collVars)
    \/ (InvalidInput /\ UNCHANGED collVars)
    \/ (Classify /\ UNCHANGED collVars)

\* the scrape and process commands, run one after the other
Spec == Init /\ [][Next]_vars

NextAnswered ==
    \/ (Scrape /\ UNCHANGED collVars)
    \/ (ProcessStart /\ UNCHANGED collVars)
    \/ (InvalidInput /\ UNCHANGED collVars)
    \/ (Classify /\ UNCHANGED collVars)

\* the user never quits and eventually answers every prompt with a classification
FairSpec == Init /\ [][NextAnswered]_vars /\ WF_vars(Classify /\ UNCHANGED collVars)

NextCollect ==
    \/ (CollectStart /\ UNCHANGED mainVars)
    \/ (BeginTable /\ UNCHANGED mainVars)
    \/ (TableRow /\ UNCHANGED mainVars)
    \/ (CollectReturn /\ UNCHANGED mainVars)

\* one call of scrape_award_novels on a page read table by table, row by row
SpecCollect == Init /\ [][NextCollect]_vars

------------------------------------------------------------------------------
(* Claims about the persisted collection (Spec, FairSpec) *)

Povs == {"first", "second", "third"}

HasKey(novels, k) == \E j \in 1..Len(novels) : Key(novels[j]) = k

SameRecords(a, b) ==
    /\ Len(a) = Len(b)
    /\ \A i \in 1..Len(a) : \E j \in 1..Len(b) : b[j] = a[i]

\* C1: no two records of the persisted collection have the same (title, year).
C1_UniqueKeys ==
    \A i, j \in 1..Len(file) : Key(file[i]) = Key(file[j]) => i = j

\* a scrape merged a novel collected under both awards, beside two more novels,
\* and a process run then classified them all
C1_Witness ==
    /\ last = "done"
    /\ accepted >= 1
    /\ Len(file) = Cardinality(Novels)
    /\ \E i \in 1..Len(file) : Len(file[i].award) >= 2

\* C2: the award field of every persisted record is one label or the sorted union
\* "Hugo|Nebula" of the distinct labels, so no label occurs twice in it.
C2_AwardIsSortedUnion ==
    \A i \in 1..Len(file) :
        file[i].award \in { <<"Hugo">>, <<"Nebula">>, <<"Hugo", "Nebula">> }

\* C3: a scrape run writes, for every key that was persisted with a non-null pov and
\* is collected again, a record with that same pov.
C3_PovKept ==
    [][\A i \in 1..Len(file) :
          (last' = "scrape" /\ file[i].pov # "null" /\ Key(file[i]) \in collected')
          => /\ HasKey(file', Key(file[i]))
             /\ \A j \in 1..Len(file') :
                  Key(file'[j]) = Key(file[i]) => file'[j].pov = file[i].pov]_vars

\* the last scrape collected, under both awards, a novel that has a pov
C3_Witness ==
    /\ last = "scrape"
    /\ \E i \in 1..Len(file) :
         /\ Key(file[i]) \in collected
         /\ file[i].pov \in Povs
         /\ Len(file[i].award) >= 2

\* C4: a record persisted with read = TRUE still has read = TRUE after a scrape run
\* that collects its key again.
C4_ReadKept ==
    [][\A i \in 1..Len(file) :
          (last' = "scrape" /\ file[i].read /\ Key(file[i]) \in collected')
          => \A j \in 1..Len(file') :
                Key(file'[j]) = Key(file[i]) => file'[j].read]_vars

\* C5 as stated: every key persisted before a scrape or process run is persisted
\* after it, for every value of --after.
C5_NeverDeleted ==
    [][Keys(file) \subseteq Keys(file')]_vars

\* C5 amended: every key persisted before a run is persisted after it, unless the run
\* is a scrape whose --after value is greater than the key's year.
C5_KeptFromAfter ==
    [][\A k \in Keys(file) :
          (last' = "scrape" => k[2] >= after') => k \in Keys(file')]_vars

\* after a scrape two records are still persisted that its pages did not list
C5_Witness ==
    /\ last = "scrape"
    /\ Cardinality({ k \in Keys(file) : k \notin collected /\ k[2] >= after }) >= 2

\* C6: at every prompt after the first, and after quit, the file holds the list with
\* every pov and read value assigned so far in the run.
C6_SavedAfterEachEntry ==
    (pc = "prompt" \/ last = "quit")
    => /\ SameRecords(all_novels, file)
       /\ accepted >= 1 => file = all_novels

\* the run was ended with quit at the prompt for the second novel, after the first
\* was classified and marked read
C6_Witness ==
    /\ last = "quit"
    /\ accepted >= 1
    /\ \E i \in 1..Len(file) : file[i].pov \in Povs /\ file[i].read
    /\ \E i \in 1..Len(file) : file[i].pov = "null"

\* the novel at the prompt has no pov and the highest year of those without pov
C9_AtPrompt ==
    pc = "prompt"
    => /\ idx \in 1..Len(all_novels)
       /\ all_novels[idx].pov = "null"
       /\ \A i \in 1..Len(all_novels) :
             all_novels[i].pov = "null" => all_novels[i].year <= all_novels[idx].year

\* a step of a process run leaves every record that has a pov as it is
C9_Frame ==
    last' # "scrape"
    => /\ \A i \in 1..Len(file) :
             file[i].pov # "null" => \E j \in 1..Len(file') : file'[j] = file[i]
       /\ \A i \in 1..Len(all_novels) :
             (pc = "prompt" /\ all_novels[i].pov # "null")
             => all_novels'[i] = all_novels[i]

\* C9: at every prompt the novel presented has no pov and its year is the maximum
\* year among the records without pov; a record that has a pov is never presented
\* and never changed by the run.
C9_MostRecentFirst == []C9_AtPrompt /\ [][C9_Frame]_vars

\* a prompt with two novels of different years waiting: the one presented is the
\* later one, which the file lists last
C9_Witness ==
    /\ pc = "prompt"
    /\ \E j \in 1..Len(all_novels) :
         /\ all_novels[j].pov = "null"
         /\ all_novels[j].year < all_novels[idx].year
         /\ file[Len(file)] = all_novels[idx]

\* the run ended by itself: as many classifications as records without pov at its
\* start, and every persisted record has a pov
C10_AtEnd ==
    last = "done"
    => /\ accepted = pending0
       /\ \A i \in 1..Len(file) : file[i].pov \in Povs

\* an invalid input changes no record and prompts again for the same novel
C10_Invalid ==
    last' = "invalid"
    => /\ pc' = "prompt"
       /\ file' = file
       /\ all_novels' = all_novels
       /\ idx' = idx
       /\ accepted' = accepted

\* C10: when the user never quits and eventually answers every prompt with a valid
\* classification, the run ends, after exactly as many accepted classifications as
\* there were records without pov at its start and with every persisted record
\* classified; an invalid input changes nothing and repeats the prompt.
C10_Terminates ==
    /\ (pc = "prompt") ~> (last = "done")
    /\ []C10_AtEnd
    /\ [][C10_Invalid]_vars

\* a run that started with three novels to classify ended by itself
C10_Witness ==
    /\ last = "done"
    /\ pending0 = Cardinality(Novels)
    /\ accepted = pending0

------------------------------------------------------------------------------
(* Claims about the collector (SpecCollect) *)

IsRowStep == rcount' = rcount + 1

\* the year the claim gives the row taken in this step
ClaimedYear == IF OwnYear(row') > 0 THEN OwnYear(row') ELSE current_year

\* C7: a body row takes the positive integer its Year cell begins with as the
\* current year, and otherwise (cell absent, empty, no integer) carries the year of
\* the nearest earlier row of the table forward; its titles are recorded with that
\* year, rows before the first year give no record, and a new table starts without
\* a year.  (Rows whose Year cell contains "retro" are C8's.)
C7_YearCarriedForward ==
    /\ [][(IsRowStep /\ ~(has_year_cell(row') /\ is_retro_cell(year_cell(row'))))
          => /\ cstate' = "running"
             /\ current_year' = ClaimedYear
             /\ award_novels' =
                  IF ClaimedYear > 0
                  THEN award_novels \o RowNovels(row'.titles, "Hugo", ClaimedYear)
                  ELSE award_novels]_vars
    /\ [][(tcount' = tcount + 1 /\ scanning') => current_year' = 0]_vars

\* C8: no record is returned for a table with both a "Year" and a "Year awarded"
\* column, for a row whose Year cell contains "retro", or for a following row that
\* carries that year forward.
C8_RetroSkipped ==
    [][(is_retro_table(header') \/ (IsRowStep /\ in_retro'))
       => award_novels' = award_novels]_vars

====
